---------------------------- MODULE Spec2Model ----------------------------
(***************************************************************************)
(* A model of the nom-cheatsheet documentation compiler.                   *)
(*                                                                         *)
(*   build.rs                      the build script: segments the template *)
(*                                 (do_code_blocks), extracts the tables   *)
(*                                 (parse_preamble_and_combinators,        *)
(*                                 parse_combinator, parse_code_span) and  *)
(*                                 synthesises one block per row (main).   *)
(*   nom-cheatsheet-shared/lib.rs  markdown_format_code.                   *)
(*   src/main.rs                   subslice_offset_bytes, format_remainder *)
(*                                 and format_iresult.                     *)
(*                                                                         *)
(* Texts are TLA+ strings, that is sequences of characters: Len, SubSeq    *)
(* and \o are used on them and a character is a string of length one.      *)
(* Every text of the model is ASCII, so a byte index is a character index. *)
(***************************************************************************)
EXTENDS Integers, Sequences, FiniteSets, TLC

VARIABLES
    pc,             \* position of the modelled run
    result,         \* build.rs main: the tables of result (line 245)
    uses,           \* build.rs main: uses, symbol name -> use statement
    uses_conflicts, \* build.rs main: uses_conflicts
    last_urls,      \* build.rs main: last_urls
    statements,     \* build.rs main: statements
    generated,      \* build.rs main: generated.rs, once written (line 438)
    template,       \* build.rs main: the text read from the template file
    input,          \* build.rs main: the text returned by do_code_blocks
    components,     \* build.rs do_code_blocks: components (line 73)
    examples,       \* build.rs do_code_blocks: the example files written
    remainder,      \* build.rs main: remainder (line 245)
    span_in,        \* the text handed to parse_code_span
    span_out,       \* its IResult
    fmt_in,         \* the text handed to markdown_format_code
    fmt_out,        \* the text it returns
    call,           \* the arguments of a format_iresult call
    rendered        \* what the call returns, or the panic

vars == <<pc, result, uses, uses_conflicts, last_urls, statements, generated,
          template, input, components, examples, remainder, span_in, span_out,
          fmt_in, fmt_out, call, rendered>>

buildVars == <<result, uses, uses_conflicts, last_urls, statements, generated>>
textVars  == <<template, input, components, examples, remainder>>
spanVars  == <<span_in, span_out>>
fmtVars   == <<fmt_in, fmt_out>>
resVars   == <<call, rendered>>

-----------------------------------------------------------------------------
(* Bounds of the model.                                                    *)

MaxFmtLen == 4

MaxSpanLen == 6

MaxSegLen == 8

MaxChunks == 5

MaxRows == 3

MaxTables == 2

MemSize == 5

MaxRemLen == 3

-----------------------------------------------------------------------------
(* Text helpers: the str methods the code uses.                            *)

Max(a, b) == IF a >= b THEN a ELSE b

\* The back-quote character. A string literal of this notation cannot hold a
\* back-quote, so the model writes the character as ^; no text of the model
\* holds a ^ that stands for anything else.
BQ == "^"

Ch(s, i) == SubSeq(s, i, i)

Take(s, n) == SubSeq(s, 1, n)

Drop(s, n) == SubSeq(s, n + 1, Len(s))

starts_with(s, p) == Len(s) >= Len(p) /\ Take(s, Len(p)) = p

ends_with(s, p) == Len(s) >= Len(p) /\ Drop(s, Len(s) - Len(p)) = p

RECURSIVE repeat(_, _)
repeat(s, n) == IF n = 0 THEN "" ELSE s \o repeat(s, n - 1)

Min(S) == CHOOSE x \in S : \A y \in S : x <= y

\* str::find: the index (from 1) of the first occurrence of t in s, 0 if none
Find(s, t) ==
    LET at == {i \in 1..(Len(s) - Len(t) + 1) : SubSeq(s, i, i + Len(t) - 1) = t}
    IN  IF at = {} THEN 0 ELSE Min(at)

RECURSIVE split(_, _)
\* str::split: the pieces between the occurrences of sp, empty ones included
split(s, sp) ==
    LET at == Find(s, sp)
    IN  IF at = 0 THEN <<s>>
        ELSE <<Take(s, at - 1)>> \o split(Drop(s, at - 1 + Len(sp)), sp)

RECURSIVE join(_, _)
\* [T]::join
join(parts, sp) ==
    IF parts = <<>> THEN ""
    ELSE IF Len(parts) = 1 THEN parts[1]
    ELSE parts[1] \o sp \o join(Tail(parts), sp)

RECURSIVE replace(_, _, _)
\* str::replace: every non-overlapping occurrence, from the left
replace(s, from, to) ==
    LET at == Find(s, from)
    IN  IF at = 0 THEN s
        ELSE Take(s, at - 1) \o to \o replace(Drop(s, at - 1 + Len(from)), from, to)

Whitespace == {" ", "\t", "\n", "\r", "\f"}

\* str::trim_end
trim_end(s) ==
    LET kept == {k \in 1..Len(s) : \A j \in k..Len(s) : Ch(s, j) \in Whitespace}
    IN  IF kept = {} THEN s ELSE Take(s, Min(kept) - 1)

\* char::is_lowercase on the ASCII letters
Lowercase ==
    {"a", "b", "c", "d", "e", "f", "g", "h", "i", "j", "k", "l", "m",
     "n", "o", "p", "q", "r", "s", "t", "u", "v", "w", "x", "y", "z"}

\* The printable ASCII characters in their order, from the space (code 32)
\* on; the place of the back-quote (code 96) is after the underscore.
Ascii ==
    " !\"#$%&'()*+,-./0123456789:;<=>?@ABCDEFGHIJKLMNOPQRSTUVWXYZ[\\]_"
    \o BQ \o "abcdefghijklmnopqrstuvwxyz{|}~"

\* the order of str: byte by byte, a proper prefix first
str_lt(a, b) ==
    LET differ == {k \in 1..Len(a) : k <= Len(b) /\ Ch(a, k) # Ch(b, k)}
    IN  IF differ = {} THEN Len(a) < Len(b)
        ELSE Find(Ascii, Ch(a, Min(differ))) < Find(Ascii, Ch(b, Min(differ)))

RECURSIVE sorted(_)
\* the texts of a set in ascending order
sorted(S) ==
    IF S = {} THEN <<>>
    ELSE LET least == CHOOSE x \in S : \A y \in S \ {x} : str_lt(x, y)
         IN  <<least>> \o sorted(S \ {least})

RECURSIVE StringsUpTo(_, _)
StringsUpTo(alphabet, n) ==
    IF n = 0 THEN {""}
    ELSE LET shorter == StringsUpTo(alphabet, n - 1)
         IN  shorter \cup {s \o c : s \in shorter, c \in alphabet}

-----------------------------------------------------------------------------
(* nom-cheatsheet-shared/src/lib.rs                                        *)

\* lines 4-14: the loop over input.chars(), carrying count and max
RECURSIVE LongestBacktickRun(_, _, _, _)
LongestBacktickRun(s, i, count, max) ==
    IF i > Len(s) THEN max
    ELSE IF Ch(s, i) = BQ
         THEN LongestBacktickRun(s, i + 1, count + 1, Max(max, count + 1))
         ELSE LongestBacktickRun(s, i + 1, 0, max)

\* the spacing left out for a text between two spaces
markdown_format_code_unpadded(s) ==
    LET max       == LongestBacktickRun(s, 1, 0, 0)
        backticks == repeat(BQ, max + 1)
        spacing   == IF starts_with(s, BQ) \/ ends_with(s, BQ) THEN " " ELSE ""
    IN  backticks \o spacing \o s \o spacing \o backticks

markdown_format_code(s) ==
    LET max       == LongestBacktickRun(s, 1, 0, 0)
        backticks == repeat(BQ, max + 1)
        spacing   == IF (starts_with(s, BQ) \/ ends_with(s, BQ))
                        \/ (starts_with(s, " ") /\ ends_with(s, " "))
                     THEN " " ELSE ""
    IN  backticks \o spacing \o s \o spacing \o backticks


-----------------------------------------------------------------------------
(* The nom 7 parsers build.rs imports (lines 1-9), on complete input. An   *)
(* IResult is a record: ok, the remaining input (on an error: the input    *)
(* the failing parser was given) and the output.                           *)

Ok(rest, out) == [ok |-> TRUE, rest |-> rest, out |-> out]

Err(at) == [ok |-> FALSE, rest |-> at, out |-> ""]

\* bytes::complete::tag
tag(t, i) == IF starts_with(i, t) THEN Ok(Drop(i, Len(t)), t) ELSE Err(i)

\* bytes::complete::take_until: up to the first occurrence of t, which is not
\* consumed; an error when t does not occur
take_until(t, i) ==
    LET at == Find(i, t)
    IN  IF at = 0 THEN Err(i) ELSE Ok(Drop(i, at - 1), Take(i, at - 1))

\* the length of the longest prefix of i made of chars
PrefixLen(i, chars) ==
    LET others == {k \in 1..Len(i) : Ch(i, k) \notin chars}
    IN  IF others = {} THEN Len(i) ELSE Min(others) - 1

\* bytes::complete::is_a: the longest non-empty prefix made of chars
is_a(chars, i) ==
    LET n == PrefixLen(i, chars)
    IN  IF n = 0 THEN Err(i) ELSE Ok(Drop(i, n), Take(i, n))

\* character::complete::space0: spaces and tabs, possibly none
space0(i) ==
    LET n == PrefixLen(i, {" ", "\t"})
    IN  Ok(Drop(i, n), Take(i, n))

\* character::complete::line_ending
line_ending(i) ==
    IF starts_with(i, "\n") THEN Ok(Drop(i, 1), "\n")
    ELSE IF starts_with(i, "\r\n") THEN Ok(Drop(i, 2), "\r\n")
    ELSE Err(i)

\* the length of i up to its first \r or \n
NotEolLen(i) ==
    LET ends == {k \in 1..Len(i) : Ch(i, k) \in {"\r", "\n"}}
    IN  IF ends = {} THEN Len(i) ELSE Min(ends) - 1

\* character::complete::not_line_ending: up to the first \r or \n; a \r that
\* does not start \r\n is an error
not_line_ending(i) ==
    LET n == NotEolLen(i)
    IN  IF n < Len(i) /\ Ch(i, n + 1) = "\r" /\ ~starts_with(Drop(i, n), "\r\n")
        THEN Err(i)
        ELSE Ok(Drop(i, n), Take(i, n))

\* combinator::rest
rest(i) == Ok("", i)

-----------------------------------------------------------------------------
(* build.rs: the template segmenter, lines 41-114.                         *)

Fence == BQ \o BQ \o BQ

\* Component::Text and Component::CodeBlock (lines 41-51). The texts of a
\* component are slices of the input; from and to are the offsets of the
\* stretch of input the parser consumed for it.
Text(from, to, text) ==
    [kind |-> "Text", from |-> from, to |-> to, text |-> text,
     language |-> "", code |-> ""]

CodeBlock(from, to, language, code) ==
    [kind |-> "CodeBlock", from |-> from, to |-> to, text |-> "",
     language |-> language, code |-> code]

\* lines 53-62; whole is the text being segmented, i what is left of it
parse_outside_code_blocks(whole, i) ==
    LET t == take_until(Fence, i)
        r == IF t.ok THEN t ELSE rest(i)
    IN  IF r.out = "" THEN Err(r.rest)
        ELSE Ok(r.rest, Text(Len(whole) - Len(i), Len(whole) - Len(r.rest), r.out))

\* lines 64-70
parse_code_block(whole, i) ==
    LET open == tag(Fence, i)
    IN  IF ~open.ok THEN Err(i) ELSE
    LET language == not_line_ending(open.rest)
    IN  IF ~language.ok THEN Err(open.rest) ELSE
    LET eol == line_ending(language.rest)
    IN  IF ~eol.ok THEN Err(language.rest) ELSE
    LET code == take_until(Fence, eol.rest)
    IN  IF ~code.ok THEN Err(eol.rest) ELSE
    LET close == tag(Fence, code.rest)
    IN  Ok(close.rest, CodeBlock(Len(whole) - Len(i), Len(whole) - Len(close.rest),
                                 language.out, code.out))

\* line 74: alt((parse_code_block, parse_outside_code_blocks))
parse_component(whole, i) ==
    LET block == parse_code_block(whole, i)
    IN  IF block.ok THEN block ELSE parse_outside_code_blocks(whole, i)

\* line 74: the loop of many1, after its first element: it ends at the first
\* error and fails when an element consumed nothing
RECURSIVE many1_components(_, _, _)
many1_components(whole, i, acc) ==
    LET r == parse_component(whole, i)
    IN  IF ~r.ok THEN Ok(i, acc)
        ELSE IF Len(r.rest) = Len(i) THEN Err(i)
        ELSE many1_components(whole, r.rest, Append(acc, r.out))

\* line 74: many1(...)(input)
segment(whole) ==
    LET first == parse_component(whole, whole)
    IN  IF ~first.ok THEN Err(whole)
        ELSE many1_components(whole, first.rest, <<first.out>>)

\* the assertion of line 75 left out
rest_is_empty_unchecked(i) == TRUE

\* line 75: assert_eq!(input, "")
rest_is_empty(i) == i = ""

\* lines 80-86: the language tag of a component after the loop
retag(component) ==
    IF component.kind = "CodeBlock" /\ component.language = "ignore"
    THEN [component EXCEPT !.language = "rust"]
    ELSE component

\* lines 91-100: the test module appended to an example
TestModule ==
    "\n#[cfg(test)]\nmod tests {\n    use super::*;\n\n    #[test]\n"
    \o "    fn test_main() {\n        main();\n    }\n}"

\* lines 84-102: the example files written, keyed by the component's index
\* (from 0) in the path; fs::write is taken to succeed
example_files(comps) ==
    {[index |-> k - 1, code |-> comps[k].code \o TestModule] :
        k \in {j \in 1..Len(comps) :
                 /\ comps[j].kind = "CodeBlock"
                 /\ comps[j].language \in {"rust", "rs"}}}

\* lines 104-112: one component written back
component_text(component) ==
    IF component.kind = "Text" THEN component.text
    ELSE Fence \o component.language \o "\n" \o component.code \o "\n" \o Fence

RECURSIVE concat(_)
concat(texts) == IF texts = <<>> THEN "" ELSE Head(texts) \o concat(Tail(texts))

\* lines 76-113: the loop over the components (parsed as many1 gave them,
\* comps after the loop) and the output
write_components(parsed, comps) ==
    [ok |-> TRUE, components |-> comps,
     files |-> example_files(parsed),
     output |-> concat([k \in 1..Len(comps) |-> component_text(comps[k])])]

\* lines 74-113, from the IResult of many1: ok is FALSE when the unwrap or
\* the assertion panics
unwrap_components(parsed) ==
    IF ~parsed.ok \/ ~rest_is_empty(parsed.rest)
    THEN [ok |-> FALSE, components |-> <<>>, files |-> {}, output |-> ""]
    ELSE write_components(parsed.out,
                          [k \in 1..Len(parsed.out) |-> retag(parsed.out[k])])

\* lines 72-114
do_code_blocks(whole) == unwrap_components(segment(whole))

-----------------------------------------------------------------------------
(* build.rs: the code span of a table cell, lines 116-128.                 *)

parse_code_span(i) ==
    LET backticks == is_a({BQ}, i)
    IN  IF ~backticks.ok THEN Err(i) ELSE
    LET code == take_until(backticks.out, backticks.rest)
    IN  IF ~code.ok THEN Err(backticks.rest) ELSE
    LET close == tag(backticks.out, code.rest)
        c == code.out
    IN  Ok(close.rest,
           IF Len(c) >= 2 /\ starts_with(c, " ") /\ ends_with(c, " ")
           THEN SubSeq(c, 2, Len(c) - 1)
           ELSE c)

-----------------------------------------------------------------------------
(* build.rs: the table extractor, lines 23-39 and 130-233.                 *)

TABLE_HEADER_SEP == "|---|---|---|---|---|"

\* Option<T>
Some(v) == [some |-> TRUE, v |-> v]

None == [some |-> FALSE, v |-> ""]

\* lines 130-135
sep(i) ==
    LET bar == tag("|", space0(i).rest)
    IN  IF ~bar.ok THEN Err(space0(i).rest) ELSE Ok(space0(bar.rest).rest, "")

\* lines 144 and 146: opt(parse_code_span)
opt_code_span(i) ==
    LET r == parse_code_span(i)
    IN  IF r.ok THEN Ok(r.rest, Some(r.out)) ELSE Ok(i, None)

\* lines 164-188: one reference of the cell resolved into a Url; name is the
\* last segment, module the others joined again. The unwrap of line 176
\* panics on an empty name.
resolve(url) ==
    LET parts == split(url, "::")
        name == parts[Len(parts)]
        path == SubSeq(parts, 1, Len(parts) - 1)
    IN  [module |-> join(path, "::"),
         name |-> name,
         docsurl |-> "https://docs.rs/nom/latest/nom/"
                     \o concat([k \in 1..Len(path) |-> path[k] \o "/"])
                     \o (IF Ch(name, 1) \in Lowercase THEN "fn." ELSE "enum.")
                     \o name \o ".html",
         panics |-> name = ""]

\* lines 162-189: the references cell split on <br>, empty pieces dropped
resolve_urls(cell) ==
    LET pieces == split(cell, "<br>")
    IN  [k \in 1..Len(SelectSeq(pieces, LAMBDA u : u # "")) |->
            resolve(SelectSeq(pieces, LAMBDA u : u # "")[k])]

RECURSIVE imports_len(_)
\* lines 213-220: the length of what many0(tuple((tag("use "),
\* take_until(";"), tag(";"), space0))) consumes
imports_len(i) ==
    LET use == tag("use ", i)
    IN  IF ~use.ok THEN 0 ELSE
    LET path == take_until(";", use.rest)
    IN  IF ~path.ok THEN 0 ELSE
    LET after == space0(Drop(path.rest, 1)).rest
    IN  (Len(i) - Len(after)) + imports_len(after)

\* lines 213-220: recognize(...) gives the consumed text, the rest is the usage
parse_imports_short(i) == Ok(Drop(i, imports_len(i)), Take(i, imports_len(i)))

\* lines 138-211: one table row. The parsers of lines 139-152 run one after
\* the other on what the one before left (st.rest), each ending the row with
\* an error when it fails (the ? of the code); st carries the cells read so
\* far. panics tells that the row parsed and the resolution of its
\* references panicked (line 176).
parse_combinator(i) ==
    LET skip(st, r) ==
            IF st.ok /\ r.ok THEN [st EXCEPT !.rest = r.rest]
            ELSE [st EXCEPT !.ok = FALSE]
        keep(st, cell, r) ==
            IF st.ok /\ r.ok THEN [st EXCEPT !.rest = r.rest, ![cell] = r.out]
            ELSE [st EXCEPT !.ok = FALSE]
        next_sep(st) == skip(st, sep(st.rest))
        urls_cell(st) == keep(st, "urls", take_until("|", st.rest))
        spaces(st) == skip(st, space0(st.rest))
        code_span(st, cell) == keep(st, cell, opt_code_span(st.rest))
        description_cell(st) == keep(st, "description", take_until("|", st.rest))
        eol(st) == skip(st, line_ending(st.rest))
        start == [ok |-> TRUE, rest |-> i, urls |-> "", usage |-> None,
                  input |-> None, description |-> ""]
        combinator(st, resolved, short) ==
            [urls |-> [k \in 1..Len(resolved) |->
                         [module |-> resolved[k].module,
                          name |-> resolved[k].name,
                          docsurl |-> resolved[k].docsurl]],
             imports |-> IF st.usage.some THEN short.out ELSE "",
             usage |-> IF st.usage.some THEN Some(short.rest) ELSE None,
             input |-> st.input,
             description |-> trim_end(st.description),
             panics |-> \E k \in 1..Len(resolved) : resolved[k].panics]
        row(st) ==
            IF ~st.ok THEN Err(i)
            ELSE Ok(st.rest, combinator(st, resolve_urls(trim_end(st.urls)),
                                        parse_imports_short(st.usage.v)))
    IN  row(eol(next_sep(description_cell(next_sep(next_sep(
            code_span(next_sep(
                code_span(next_sep(spaces(urls_cell(next_sep(start)))), "usage")),
                "input")))))))

\* line 231: the loop of many1(parse_combinator) after its first row
RECURSIVE many1_combinators(_, _)
many1_combinators(i, acc) ==
    LET next(r) == IF ~r.ok THEN Ok(i, acc)
                   ELSE IF Len(r.rest) = Len(i) THEN Err(i)
                   ELSE many1_combinators(r.rest, Append(acc, r.out))
    IN  next(parse_combinator(i))

\* lines 224-233: one table, with the text before it
parse_preamble_and_combinators(i) ==
    LET before == take_until(TABLE_HEADER_SEP, i)
    IN  IF ~before.ok THEN Err(i) ELSE
    LET eol == line_ending(Drop(before.rest, Len(TABLE_HEADER_SEP)))
    IN  IF ~eol.ok THEN Err(i) ELSE
    LET table(rows) ==
            IF ~rows.ok THEN Err(i)
            ELSE Ok(rows.rest, [preamble |-> Take(i, Len(i) - Len(eol.rest)),
                                combinators |-> rows.out])
        many1(first) ==
            IF ~first.ok THEN Err(i)
            ELSE table(many1_combinators(first.rest, <<first.out>>))
    IN  many1(parse_combinator(eol.rest))

\* line 246: the loop of many1(parse_preamble_and_combinators) after its
\* first table
RECURSIVE many1_tables(_, _)
many1_tables(i, acc) ==
    LET next(r) == IF ~r.ok THEN Ok(i, acc)
                   ELSE IF Len(r.rest) = Len(i) THEN Err(i)
                   ELSE many1_tables(r.rest, Append(acc, r.out))
    IN  next(parse_preamble_and_combinators(i))

\* lines 245-246: many1(parse_preamble_and_combinators)(&input); the unwrap
\* panics when ok is FALSE, and the build also stops when a row panicked
extract_tables(i) ==
    LET many1(first) ==
            IF ~first.ok THEN Err(i) ELSE many1_tables(first.rest, <<first.out>>)
    IN  many1(parse_preamble_and_combinators(i))

row_panicked(tables) ==
    \E t \in 1..Len(tables) : \E r \in 1..Len(tables[t].combinators) :
        tables[t].combinators[r].panics

-----------------------------------------------------------------------------
(* SpecFmt: markdown_format_code applied to one text.                      *)

FmtAlphabet == {BQ, " ", "a"}

IdleBuild ==
    /\ result = <<>>
    /\ uses = <<>>
    /\ uses_conflicts = {}
    /\ last_urls = <<>>
    /\ statements = <<>>
    /\ generated = [written |-> FALSE, uses |-> <<>>, statements |-> <<>>]

IdleText ==
    /\ template = ""
    /\ input = ""
    /\ components = <<>>
    /\ examples = {}
    /\ remainder = ""

IdleSpan == span_in = "" /\ span_out = [ok |-> FALSE, rest |-> "", out |-> ""]

IdleFmt == fmt_in = "" /\ fmt_out = ""

IdleRes ==
    /\ call = [kind |-> "none", tag |-> "none", input |-> [ptr |-> 0, len |-> 0],
               location |-> [ptr |-> 0, len |-> 0], code |-> "", value |-> "",
               remainder |-> [text |-> "", bytes |-> <<>>], needed |-> 0]
    /\ rendered = ""

InitFmt ==
    /\ pc = "format"
    /\ fmt_in \in StringsUpTo(FmtAlphabet, MaxFmtLen)
    /\ fmt_out = ""
    /\ IdleBuild /\ IdleText /\ IdleSpan /\ IdleRes

Format ==
    /\ pc = "format"
    /\ fmt_out' = markdown_format_code(fmt_in)
    /\ pc' = "formatted"
    /\ UNCHANGED <<fmt_in, buildVars, textVars, spanVars, resVars>>

NextFmt == Format

SpecFmt == InitFmt /\ [][NextFmt]_vars


-----------------------------------------------------------------------------
(* SpecSpan: parse_code_span applied to one text.                          *)

SpanAlphabet == {BQ, " ", "a"}

InitSpan ==
    /\ pc = "span"
    /\ span_in \in StringsUpTo(SpanAlphabet, MaxSpanLen)
    /\ span_out = [ok |-> FALSE, rest |-> "", out |-> ""]
    /\ IdleBuild /\ IdleText /\ IdleFmt /\ IdleRes

ParseCodeSpan ==
    /\ pc = "span"
    /\ span_out' = parse_code_span(span_in)
    /\ pc' = "spanned"
    /\ UNCHANGED <<span_in, buildVars, textVars, fmtVars, resVars>>

NextSpan == ParseCodeSpan

SpecSpan == InitSpan /\ [][NextSpan]_vars

-----------------------------------------------------------------------------
(* SpecRound: markdown_format_code applied to one text and parse_code_span *)
(* applied to what it gives.                                               *)

ReparseCodeSpan ==
    /\ pc = "formatted"
    /\ span_in' = fmt_out
    /\ span_out' = parse_code_span(fmt_out)
    /\ pc' = "reparsed"
    /\ UNCHANGED <<fmtVars, buildVars, textVars, resVars>>

NextRound == Format \/ ReparseCodeSpan

SpecRound == InitFmt /\ [][NextRound]_vars

-----------------------------------------------------------------------------
(* SpecSeg: do_code_blocks applied to one text (build.rs line 239).        *)

SegAlphabet == {BQ, "\n", "\r", "x"}

InitSeg ==
    /\ pc = "segment"
    /\ template \in StringsUpTo(SegAlphabet, MaxSegLen)
    /\ input = ""
    /\ components = <<>>
    /\ examples = {}
    /\ remainder = ""
    /\ IdleBuild /\ IdleSpan /\ IdleFmt /\ IdleRes

\* build.rs line 239: let input = do_code_blocks(&input)?
DoCodeBlocks ==
    /\ pc = "segment"
    /\ \E r \in {do_code_blocks(template)} :
           /\ pc' = IF r.ok THEN "segmented" ELSE "aborted"
           /\ components' = r.components
           /\ examples' = r.files
           /\ input' = r.output
    /\ UNCHANGED <<template, remainder, buildVars, spanVars, fmtVars, resVars>>

NextSeg == DoCodeBlocks

SpecSeg == InitSeg /\ [][NextSeg]_vars

-----------------------------------------------------------------------------
(* SpecExtract: the template is segmented and its tables are extracted     *)
(* (build.rs lines 237-246). A template is made of whole lines.            *)

TextLine == "t\n"

HeaderLine == TABLE_HEADER_SEP \o "\n"

GoodRow == "|a::f|" \o BQ \o "u" \o BQ \o "|" \o BQ \o "i" \o BQ \o "||d|\n"

\* a row with four cells: the output cell is missing
ShortRow == "|a::f|" \o BQ \o "u" \o BQ \o "|" \o BQ \o "i" \o BQ \o "|d|\n"

CodeLines == Fence \o "ignore\nx\n" \o Fence \o "\n"

Chunks == {TextLine, HeaderLine, GoodRow, ShortRow, CodeLines}

RECURSIVE Templates(_)
Templates(n) ==
    IF n = 0 THEN {""}
    ELSE LET shorter == Templates(n - 1)
         IN  shorter \cup {t \o c : t \in shorter, c \in Chunks}

InitExtract ==
    /\ pc = "segment"
    /\ template \in Templates(MaxChunks)
    /\ input = ""
    /\ components = <<>>
    /\ examples = {}
    /\ remainder = ""
    /\ IdleBuild /\ IdleSpan /\ IdleFmt /\ IdleRes

\* build.rs lines 245-246
ParseTables ==
    /\ pc = "segmented"
    /\ \E r \in {extract_tables(input)} :
           IF r.ok /\ ~row_panicked(r.out)
           THEN /\ pc' = "extracted"
                /\ result' = r.out
                /\ remainder' = r.rest
           ELSE /\ pc' = "aborted"
                /\ UNCHANGED <<result, remainder>>
    /\ UNCHANGED <<template, input, components, examples, uses, uses_conflicts,
                   last_urls, statements, generated, spanVars, fmtVars, resVars>>

NextExtract == DoCodeBlocks \/ ParseTables

SpecExtract == InitExtract /\ [][NextExtract]_vars

-----------------------------------------------------------------------------
(* build.rs main: the loop over the tables and their rows, lines 248-438.  *)
(* syn is taken to accept the cell texts of the model as Rust, and to give *)
(* equal items for equal texts.                                            *)

\* lines 291-296: the use statement of a reference
use_statement(module, name) ==
    "#[allow(unused_imports)] use nom::" \o module \o "::" \o name \o ";"

\* line 289: syn::parse_str::<syn::Path> fails on an empty path segment
path_parses(module) ==
    \A k \in 1..Len(split("nom::" \o module, "::")) :
        split("nom::" \o module, "::")[k] # ""

\* the streaming test only
filtered_streaming_only(module) == ends_with(module, "streaming")

\* line 285
filtered(module) == ends_with(module, "streaming") \/ starts_with(module, "bits")

\* the ledger without its conflict set
record_keep_last(ledger, name, statement) ==
    [uses |-> [n \in DOMAIN ledger.uses \cup {name} |->
                  IF n = name THEN statement ELSE ledger.uses[n]],
     conflicts |-> ledger.conflicts]

\* lines 308-313: HashMap::insert keeps the new statement and returns the old
\* one; the name is a conflict when the old one differs
record(ledger, name, statement) ==
    [uses |-> [n \in DOMAIN ledger.uses \cup {name} |->
                  IF n = name THEN statement ELSE ledger.uses[n]],
     conflicts |-> IF name \in DOMAIN ledger.uses /\ ledger.uses[name] # statement
                   THEN ledger.conflicts \cup {name}
                   ELSE ledger.conflicts]

RECURSIVE import_items(_)
\* line 277: the items of the imports text, one per use declaration
import_items(i) ==
    LET use == tag("use ", i)
    IN  IF ~use.ok THEN <<>> ELSE
    LET path == take_until(";", use.rest)
    IN  IF ~path.ok THEN <<>>
        ELSE <<"use " \o path.out \o ";">>
             \o import_items(space0(Drop(path.rest, 1)).rest)

\* lines 272-276: the references a row works with
effective_urls(combinator, last) ==
    IF combinator.urls = <<>> THEN last ELSE combinator.urls

\* the row's own references kept for the next row
next_last_urls_own(combinator, urls) == combinator.urls

\* line 408: last_urls = urls
next_last_urls(combinator, urls) == urls

RECURSIVE record_urls(_, _, _, _)
\* lines 278-314: the loop over the effective references, from the k-th on;
\* failed tells that line 289 returned an error
record_urls(urls, k, items, ledger) ==
    IF k > Len(urls) THEN [failed |-> FALSE, items |-> items, ledger |-> ledger]
    ELSE IF filtered(urls[k].module) THEN record_urls(urls, k + 1, items, ledger)
    ELSE IF ~path_parses(urls[k].module)
    THEN [failed |-> TRUE, items |-> items, ledger |-> ledger]
    ELSE LET statement == use_statement(urls[k].module, urls[k].name)
         IN  record_urls(urls, k + 1, Append(items, statement),
                         record(ledger, urls[k].name, statement))

\* the reference column made from the effective references
urlstrings_carried(combinator, urls) ==
    join([k \in 1..Len(urls) |->
            urls[k].module \o "::[" \o urls[k].name
            \o "](" \o urls[k].docsurl \o ")"], "<br>")

\* lines 316-327: the reference column of a row; urls are the effective
\* references of line 272, which the column does not use
urlstrings(combinator, urls) ==
    join([k \in 1..Len(combinator.urls) |->
            combinator.urls[k].module \o "::[" \o combinator.urls[k].name
            \o "](" \o combinator.urls[k].docsurl \o ")"], "<br>")

\* a row with a usage and no input taken for a static row
row_shape_lenient(combinator) ==
    IF ~combinator.input.some THEN "static"
    ELSE IF ~combinator.usage.some THEN "malformed"
    ELSE "example"

\* lines 329-345: the arms of the match on (input, usage)
row_shape(combinator) ==
    IF ~combinator.input.some /\ ~combinator.usage.some THEN "static"
    ELSE IF ~combinator.input.some \/ ~combinator.usage.some THEN "malformed"
    ELSE "example"

\* the statements pushed to the generated function
WriteStmt(text) ==
    [kind |-> "write", text |-> text, imports |-> <<>>, input_code |-> "",
     assignment |-> "", urlstrings |-> "", usage |-> "", input |-> "",
     desc |-> ""]

\* lines 331-340
StaticStmt(urlstr, desc) ==
    [kind |-> "writeln", text |-> "| " \o urlstr \o " |  |  |  | " \o desc \o " |",
     imports |-> <<>>, input_code |-> "", assignment |-> "", urlstrings |-> "",
     usage |-> "", input |-> "", desc |-> ""]

\* lines 348-365: the input literal, made a slice when it is a reference to
\* an array and cast when it is a byte string
input_code(i) ==
    IF starts_with(i, "&[") THEN i \o "[..]"
    ELSE IF starts_with(i, "b\"") THEN i \o " as &[u8]"
    ELSE i

\* lines 369-384: the usage as a let statement of its own, or bound to output
assignment(usage) ==
    LET usage_code == replace(usage, "\\|", "|")
    IN  IF starts_with(usage_code, "let ")
        THEN usage_code \o "(input);"
        ELSE "let output: IResult<_, _> = " \o usage_code \o "(input);"

\* lines 373-377: the assertion on a usage that is a let statement
assignment_asserts(usage) ==
    starts_with(replace(usage, "\\|", "|"), "let ")
        => starts_with(replace(usage, "\\|", "|"), "let output")

\* lines 386-405
BlockStmt(items, combinator, urlstr) ==
    [kind |-> "block", text |-> "", imports |-> items,
     input_code |-> input_code(combinator.input.v),
     assignment |-> assignment(combinator.usage.v),
     urlstrings |-> urlstr,
     usage |-> markdown_format_code(combinator.usage.v),
     input |-> markdown_format_code(combinator.input.v),
     desc |-> combinator.description]

-----------------------------------------------------------------------------
(* Spec: main from line 248 on. The tables of result are taken up in their *)
(* order and a row never looks at the rows after it, so the model draws    *)
(* the next table or row when the loop comes to it: result holds the       *)
(* tables and rows the loop has reached.                                   *)

RowLines ==
    { "|a::f|" \o BQ \o "u" \o BQ \o "|" \o BQ \o "i" \o BQ \o "||d|\n",
      "|b::f|" \o BQ \o "u" \o BQ \o "|" \o BQ \o "i" \o BQ \o "||d|\n",
      "||" \o BQ \o "u" \o BQ \o "|" \o BQ \o "i" \o BQ \o "||d|\n",
      "|a::f<br>c::g||||d|\n",
      "|||||d|\n",
      "|a::f|" \o BQ \o "u" \o BQ \o "|||d|\n",
      "|a::f||" \o BQ \o "i" \o BQ \o "||d|\n",
      "|a::streaming::f|" \o BQ \o "use x::y; u" \o BQ \o "|" \o BQ \o "i" \o BQ \o "||d|\n",
      "|bits::f|" \o BQ \o "u" \o BQ \o "|" \o BQ \o "i" \o BQ \o "||d|\n" }

\* the rows parse_combinator makes of these lines
Rows == {parse_combinator(line).out : line \in RowLines}

Preambles == {HeaderLine, TextLine \o HeaderLine}

Remainders == {"", TextLine}

RECURSIVE concat_rows(_)
\* the rows of the tables, one after the other
concat_rows(tables) ==
    IF tables = <<>> THEN <<>>
    ELSE Head(tables).combinators \o concat_rows(Tail(tables))

RowsReached == Len(concat_rows(result))

Init ==
    /\ pc = "rows"
    /\ IdleBuild /\ IdleText /\ IdleSpan /\ IdleFmt /\ IdleRes

\* lines 255-266: the loop comes to the next table
NextTable ==
    /\ pc = "rows"
    /\ Len(result) < MaxTables
    /\ result # <<>> => result[Len(result)].combinators # <<>>
    /\ \E preamble \in Preambles :
        /\ result' = Append(result, [preamble |-> preamble, combinators |-> <<>>])
        /\ statements' = Append(statements, WriteStmt(preamble))
    /\ UNCHANGED <<pc, uses, uses_conflicts, last_urls, generated,
                   textVars, spanVars, fmtVars, resVars>>

\* lines 268-409: the loop comes to the next row of the table
ProcessRow ==
    /\ pc = "rows"
    /\ result # <<>>
    /\ RowsReached < MaxRows
    /\ \E combinator \in Rows :
        LET urls == effective_urls(combinator, last_urls)
            recorded == record_urls(urls, 1, import_items(combinator.imports),
                                    [uses |-> uses, conflicts |-> uses_conflicts])
            urlstr == urlstrings(combinator, urls)
            shape == row_shape(combinator)
            stops == \/ recorded.failed
                     \/ shape = "malformed"
                     \/ shape = "example" /\ ~assignment_asserts(combinator.usage.v)
        IN  /\ result' = [result EXCEPT ![Len(result)].combinators =
                              Append(@, combinator)]
            /\ IF stops
               THEN /\ pc' = "aborted"
                    /\ UNCHANGED <<uses, uses_conflicts, last_urls, statements>>
               ELSE /\ pc' = pc
                    /\ uses' = recorded.ledger.uses
                    /\ uses_conflicts' = recorded.ledger.conflicts
                    /\ statements' = Append(statements,
                          IF shape = "static"
                          THEN StaticStmt(urlstr, combinator.description)
                          ELSE BlockStmt(recorded.items, combinator, urlstr))
                    /\ last_urls' = next_last_urls(combinator, urls)
    /\ UNCHANGED <<generated, textVars, spanVars, fmtVars, resVars>>

\* lines 412-438: the remainder, the ledger without its conflicts and sorted,
\* and the generated file
Finish ==
    /\ pc = "rows"
    /\ result # <<>>
    /\ result[Len(result)].combinators # <<>>
    /\ \E rem \in Remainders :
        /\ statements' = Append(statements, WriteStmt(rem))
        /\ uses' = [n \in DOMAIN uses \ uses_conflicts |-> uses[n]]
        /\ generated' = [written |-> TRUE,
                         uses |-> sorted({uses[n] : n \in DOMAIN uses \ uses_conflicts}),
                         statements |-> statements']
    /\ pc' = "done"
    /\ UNCHANGED <<result, uses_conflicts, last_urls, textVars, spanVars,
                   fmtVars, resVars>>

Next == NextTable \/ ProcessRow \/ Finish

Spec == Init /\ [][Next]_vars

-----------------------------------------------------------------------------
(* src/main.rs: subslice_offset_bytes, format_remainder, format_iresult.   *)
(* A slice is an address and a length in a memory of MemSize bytes; an     *)
(* address plus a length never passes the end of the address space.        *)

UsizeMax == MemSize

\* usize::checked_add
checked_add(a, b) == IF a + b > UsizeMax THEN None ELSE Some(a + b)

\* the text impl with the test of the end address left out, as for [u8]
str_subslice_offset_bytes_like_u8(self, subslice) ==
    LET self_end == checked_add(self.ptr, self.len)
        subslice_end == checked_add(subslice.ptr, subslice.len)
    IN  IF ~self_end.some \/ ~subslice_end.some THEN None
        ELSE IF subslice.ptr < self.ptr \/ subslice_end.v > self_end.v THEN None
        ELSE Some(subslice.ptr - self.ptr)

\* lines 37-53: impl SubsliceOffset for str
str_subslice_offset_bytes(self, subslice) ==
    LET self_end == checked_add(self.ptr, self.len)
        subslice_end == checked_add(subslice.ptr, subslice.len)
    IN  IF ~self_end.some \/ ~subslice_end.some THEN None
        ELSE IF \/ subslice.ptr < self.ptr
                \/ subslice.ptr = self_end.v
                \/ subslice_end.v > self_end.v
        THEN None
        ELSE IF subslice.ptr < self.ptr \/ subslice.ptr > self_end.v THEN None
        ELSE Some(subslice.ptr - self.ptr)

\* lines 61-74: impl SubsliceOffset for [u8]
u8_subslice_offset_bytes(self, subslice) ==
    LET self_end == checked_add(self.ptr, self.len)
        subslice_end == checked_add(subslice.ptr, subslice.len)
    IN  IF ~self_end.some \/ ~subslice_end.some THEN None
        ELSE IF subslice.ptr < self.ptr \/ subslice_end.v > self_end.v THEN None
        ELSE Some(subslice.ptr - self.ptr)

\* the impl the type of the input selects
subslice_offset_bytes(kind, self, subslice) ==
    IF kind = "str" THEN str_subslice_offset_bytes(self, subslice)
    ELSE u8_subslice_offset_bytes(self, subslice)

Digits == "0123456789abcdef"

RECURSIVE decimal(_)
\* Display for usize
decimal(n) ==
    IF n < 10 THEN Ch(Digits, n + 1)
    ELSE decimal(n \div 10) \o Ch(Digits, (n % 10) + 1)

\* char::escape_debug inside a str, on the characters of the model
escape_debug(c) ==
    IF c = "\"" THEN "\\\""
    ELSE IF c = "\\" THEN "\\\\"
    ELSE IF c = "\n" THEN "\\n"
    ELSE c

\* Debug for str; the flags of {:#04x?} do not change it
debug_str(text) ==
    "\"" \o concat([k \in 1..Len(text) |-> escape_debug(Ch(text, k))]) \o "\""

\* {:#04x?} for u8
debug_u8(b) == "0x" \o Ch(Digits, (b \div 16) + 1) \o Ch(Digits, (b % 16) + 1)

\* {:#04x?} for [u8]: the pretty list, one element a line
debug_bytes(bytes) ==
    IF bytes = <<>> THEN "[]"
    ELSE "[\n"
         \o concat([k \in 1..Len(bytes) |-> "    " \o debug_u8(bytes[k]) \o ",\n"])
         \o "]"

\* format!("{remainder:#04x?}") of line 126
debug_remainder(kind, content) ==
    IF kind = "str" THEN debug_str(content.text) ELSE debug_bytes(content.bytes)

\* lines 122-132
format_remainder(kind, content) ==
    replace(replace(replace(replace(replace(
        markdown_format_code(debug_remainder(kind, content)),
        "\n", ""), " ", ""), ",]", "]"), ",", ", "), "[", "&[")

\* Length::is_empty, lines 82-111
is_empty(kind, content) ==
    IF kind = "str" THEN Len(content.text) = 0 ELSE Len(content.bytes) = 0

\* lines 134-172: panics is the unwrap of line 167
format_iresult(c) ==
    IF c.tag = "Ok"
    THEN LET value == markdown_format_code(debug_str(c.value))
         IN  [panics |-> FALSE,
              text |-> IF is_empty(c.kind, c.remainder)
                       THEN "Result: " \o value \o "<br>No remainder"
                       ELSE "Result: " \o value \o "<br>Remainder: "
                            \o format_remainder(c.kind, c.remainder)]
    ELSE IF c.tag = "Incomplete"
    THEN [panics |-> FALSE,
          text |-> IF c.needed > 0
                   THEN "Incomplete<br>Needed: " \o decimal(c.needed) \o " items"
                   ELSE "Incomplete<br>Needed: unknown"]
    ELSE LET offset == subslice_offset_bytes(c.kind, c.input, c.location)
         IN  IF ~offset.some THEN [panics |-> TRUE, text |-> ""]
             ELSE [panics |-> FALSE,
                   text |-> c.tag \o "<br>Byte offset: " \o decimal(offset.v)
                            \o "<br>Code: " \o c.code]

-----------------------------------------------------------------------------
(* SpecRes: one call of format_iresult. The value of a success is a text;   *)
(* a remainder is a text or a byte sequence, by the type of the input.     *)

StrContent(text) == [text |-> text, bytes |-> <<>>]

ByteContent(bytes) == [text |-> "", bytes |-> bytes]

Slices == {[ptr |-> a, len |-> n] : a \in 0..MemSize, n \in 0..MemSize}
            \cap {sl \in [ptr : 0..MemSize, len : 0..MemSize] :
                    sl.ptr + sl.len <= MemSize}

RemAlphabet == {"a", " ", ",", "[", "]", BQ, "\""}

ByteValues == {0, 1, 171}

RECURSIVE SeqsUpTo(_, _)
SeqsUpTo(S, n) ==
    IF n = 0 THEN {<<>>}
    ELSE LET shorter == SeqsUpTo(S, n - 1)
         IN  shorter \cup {Append(q, x) : q \in shorter, x \in S}

\* a call: the type of the input, the input and the IResult. needed is 0 for
\* Needed::Unknown.
Call(kind, outcome, inp, location, code, value, rem, needed) ==
    [kind |-> kind, tag |-> outcome, input |-> inp, location |-> location,
     code |-> code, value |-> value, remainder |-> rem, needed |-> needed]

NoSlice == [ptr |-> 0, len |-> 0]

Calls ==
    {Call(kind, outcome, inp, location, code, "", StrContent(""), 0) :
        kind \in {"str", "bytes"}, outcome \in {"Error", "Failure"},
        inp \in Slices, location \in Slices, code \in {"Tag", "Eof"}}
    \cup {Call("str", "Ok", NoSlice, NoSlice, "", value, StrContent(rem), 0) :
            value \in {"a", BQ}, rem \in StringsUpTo(RemAlphabet, MaxRemLen)}
    \cup {Call("bytes", "Ok", NoSlice, NoSlice, "", value, ByteContent(rem), 0) :
            value \in {"a", BQ}, rem \in SeqsUpTo(ByteValues, MaxRemLen)}
    \cup {Call(kind, "Incomplete", NoSlice, NoSlice, "", "", StrContent(""), needed) :
            kind \in {"str", "bytes"}, needed \in {0, 1, 12}}

InitRes ==
    /\ pc = "call"
    /\ call \in Calls
    /\ rendered = ""
    /\ IdleBuild /\ IdleText /\ IdleSpan /\ IdleFmt

FormatIresult ==
    /\ pc = "call"
    /\ pc' = IF format_iresult(call).panics THEN "panicked" ELSE "returned"
    /\ rendered' = format_iresult(call).text
    /\ UNCHANGED <<call, buildVars, textVars, spanVars, fmtVars>>

NextRes == FormatIresult

SpecRes == InitRes /\ [][NextRes]_vars

-----------------------------------------------------------------------------
(* Maximal back-quote runs of a text, as <<start, length>> pairs.          *)

RECURSIVE RunLen(_, _)
RunLen(s, i) == IF i <= Len(s) /\ Ch(s, i) = BQ THEN 1 + RunLen(s, i + 1) ELSE 0

MaximalRuns(s) ==
    {<<i, RunLen(s, i)>> : i \in {j \in 1..Len(s) :
        Ch(s, j) = BQ /\ (j = 1 \/ Ch(s, j - 1) # BQ)}}

\* the length of the longest maximal back-quote run of a text, 0 without one
LongestRun(s) ==
    LET lens == {r[2] : r \in MaximalRuns(s)}
    IN  IF lens = {} THEN 0 ELSE CHOOSE m \in lens : \A x \in lens : x <= m

\* C6: the result of markdown_format_code(s) starts and ends with a run of
\* exactly (longest back-quote run of s) + 1 back-quotes, and a maximal
\* back-quote run of that length occurs nowhere else in the result, for every
\* s, the empty string included.
C6_DelimiterOnlyAtEnds ==
    pc = "formatted" =>
        LET d == LongestRun(fmt_in) + 1
        IN  /\ Len(fmt_out) >= 2 * d
            /\ {r \in MaximalRuns(fmt_out) : r[2] = d}
                 = {<<1, d>>, <<Len(fmt_out) - d + 1, d>>}

\* The same statement restricted to the non-empty texts.
FmtDelimiterOnlyAtEndsNonEmpty ==
    (pc = "formatted" /\ fmt_in # "") =>
        LET d == LongestRun(fmt_in) + 1
        IN  /\ Len(fmt_out) >= 2 * d
            /\ {r \in MaximalRuns(fmt_out) : r[2] = d}
                 = {<<1, d>>, <<Len(fmt_out) - d + 1, d>>}

-----------------------------------------------------------------------------
(* Claims about the segmenter (SpecSeg).                                   *)

\* The components tile the text: the first starts at offset 0, each starts
\* where the one before ends, the last ends at the end of the text, none is
\* empty, and each holds the text of its stretch (a code block: the opening
\* fence, the language line, the code and the closing fence).
Tiles(comps, whole) ==
    /\ comps # <<>>
    /\ comps[1].from = 0
    /\ comps[Len(comps)].to = Len(whole)
    /\ \A k \in 1..Len(comps) :
        LET c == comps[k]
            src == SubSeq(whole, c.from + 1, c.to)
        IN  /\ c.from < c.to
            /\ k < Len(comps) => c.to = comps[k + 1].from
            /\ \/ c.kind = "Text" /\ c.text = src
               \/ /\ c.kind = "CodeBlock"
                  /\ \E eol \in {"\n", "\r\n"}, tg \in {c.language, "ignore"} :
                        src = Fence \o tg \o eol \o c.code \o Fence

\* A fence opens a code region that is never closed: reading the text from
\* the left, a fence marker is followed by no line end, or by no fence marker
\* after the end of its line.
RECURSIVE OpensUnclosed(_)
OpensUnclosed(s) ==
    LET p == Find(s, Fence)
    IN  IF p = 0 THEN FALSE ELSE
    LET line == Drop(s, p + 2)
        e == Find(line, "\n")
    IN  IF e = 0 THEN TRUE ELSE
    LET body == Drop(line, e)
        q == Find(body, Fence)
    IN  IF q = 0 THEN TRUE ELSE OpensUnclosed(Drop(body, q + 2))

\* C9: do_code_blocks either aborts the build or produces Text and CodeBlock
\* components whose source spans tile the whole input with no gap and no
\* overlap; an input with an opening fence and no closing fence after it
\* aborts, and no Text component holds a fence.
C9_SegmentationTotalOrFatal ==
    pc # "segment" =>
    /\ pc \in {"segmented", "aborted"}
    /\ pc = "segmented" =>
          /\ Tiles(components, template)
          /\ \A k \in 1..Len(components) :
                components[k].kind = "Text" => Find(components[k].text, Fence) = 0
    /\ OpensUnclosed(template) => pc = "aborted"

C9_Witness ==
    /\ pc = "segmented"
    /\ \E j, k \in 1..Len(components) :
          components[j].kind = "Text" /\ components[k].kind = "CodeBlock"

-----------------------------------------------------------------------------
(* Claims about parse_code_span (SpecSpan).                                *)

StripSpacePair(c) ==
    IF Len(c) >= 2 /\ Ch(c, 1) = " " /\ Ch(c, Len(c)) = " "
    THEN SubSeq(c, 2, Len(c) - 1) ELSE c

\* C10: a code span opened by a run of n back-quotes ends at the next run of
\* back-quotes of length exactly n; shorter and longer runs inside the span
\* do not end it and belong to its content.
C10_SpanEndsAtEqualRun ==
    (pc = "spanned" /\ starts_with(span_in, BQ)) =>
        LET n == RunLen(span_in, 1)
            closers == {r \in MaximalRuns(span_in) : r[1] > n /\ r[2] = n}
        IN  IF closers = {} THEN ~span_out.ok
            ELSE LET e == Min({r[1] : r \in closers})
                 IN  /\ span_out.ok
                     /\ span_out.rest = Drop(span_in, e + n - 1)
                     /\ span_out.out = StripSpacePair(SubSeq(span_in, n + 1, e - 1))

\* What holds instead: the span ends at the first place after the opening run
\* where n back-quotes stand in a row, whatever follows them.
SpanEndsAtFirstOccurrence ==
    (pc = "spanned" /\ starts_with(span_in, BQ)) =>
        LET n == RunLen(span_in, 1)
            at == {j \in (n + 1)..Len(span_in) :
                     \A k \in j..(j + n - 1) : k <= Len(span_in) /\ Ch(span_in, k) = BQ}
        IN  IF at = {} THEN ~span_out.ok
            ELSE /\ span_out.ok
                 /\ span_out.rest = Drop(span_in, Min(at) + n - 1)
                 /\ span_out.out = StripSpacePair(SubSeq(span_in, n + 1, Min(at) - 1))

-----------------------------------------------------------------------------
(* Claims about the extraction (SpecExtract).                              *)

RECURSIVE SkipGoodRows(_)
SkipGoodRows(t) ==
    IF starts_with(t, GoodRow) THEN SkipGoodRows(Drop(t, Len(GoodRow))) ELSE t

\* The text has a table (a header separator line and zero or more rows) whose
\* next row is the row with the missing cell.
ShortRowInTable(t) ==
    \E p \in 1..(Len(t) - Len(HeaderLine) + 1) :
        /\ SubSeq(t, p, p + Len(HeaderLine) - 1) = HeaderLine
        /\ starts_with(SkipGoodRows(Drop(t, p + Len(HeaderLine) - 1)), ShortRow)

\* C4: a table row that is missing a required cell aborts the build, wherever
\* the row is (first or later row, first or later table); it is never passed
\* through as part of a following preamble or of the trailing remainder.
C4_ShortRowAborts ==
    (pc \in {"extracted", "aborted"} /\ ShortRowInTable(template)) => pc = "aborted"

\* The template with the ignore tag of its code regions rewritten.
IgnoreRewritten(t) == replace(t, Fence \o "ignore\n", Fence \o "rust\n")

\* text is the preamble of table k, one or more rows, and so on for the
\* tables after k, and at last the remainder.
RECURSIVE Fits(_, _)
Fits(text, k) ==
    IF k > Len(result) THEN text = remainder
    ELSE /\ starts_with(text, result[k].preamble)
         /\ LET after == Drop(text, Len(result[k].preamble))
                rows == many1_combinators(after, <<>>)
            IN  /\ Len(rows.rest) < Len(after)
                /\ Fits(rows.rest, k + 1)

\* C8: for every template that builds, the text that is not a table row (the
\* preambles, the code regions with their fence lines, the trailing remainder)
\* reaches the assembled document unchanged and in its order, but for the
\* rewrite of the ignore tag: the preambles and the remainder main writes out
\* are, with table rows between them, the template itself.
C8_NonRowTextVerbatim ==
    pc = "extracted" => Fits(IgnoreRewritten(template), 1)

\* The same for the templates without a code region.
NonRowTextVerbatimWithoutFence ==
    (pc = "extracted" /\ Find(template, Fence) = 0) => Fits(template, 1)

-----------------------------------------------------------------------------
(* Claims about the loop of main (Spec).                                   *)

AllRows == concat_rows(result)

\* the number of rows in the tables before table t
RECURSIVE RowsBefore(_)
RowsBefore(t) == IF t <= 1 THEN 0 ELSE RowsBefore(t - 1) + Len(result[t - 1].combinators)

\* the statements pushed for rows, in the order of the rows
RowStmts == SelectSeq(statements, LAMBDA st : st.kind # "write")

\* the reference column of the row a statement writes
RefColumn(st) ==
    IF st.kind = "block" THEN st.urlstrings
    ELSE SubSeq(st.text, 3, Find(st.text, " |  |  |  | ") - 1)

\* the references in force at the k-th row: its own, or those of the nearest
\* row before it that has some
RECURSIVE InForce(_)
InForce(k) ==
    IF k = 0 THEN <<>>
    ELSE IF AllRows[k].urls # <<>> THEN AllRows[k].urls
    ELSE InForce(k - 1)

\* the tables whose first row has references and whose second row has none,
\* both rows written
CarryTables ==
    {t \in 1..Len(result) :
        /\ Len(result[t].combinators) >= 2
        /\ result[t].combinators[1].urls # <<>>
        /\ result[t].combinators[2].urls = <<>>
        /\ Len(RowStmts) >= RowsBefore(t) + 2}

\* C1, as stated: in such a table the reference column written for the
\* second row is identical to the one written for the first row.
C1_SecondRowColumnSame ==
    \A t \in CarryTables :
        RefColumn(RowStmts[RowsBefore(t) + 2]) = RefColumn(RowStmts[RowsBefore(t) + 1])

\* C1, amended: in such a table the reference column written for the second
\* row is empty, being made of the references of the row's own cell, while the
\* first row's is not; what the second row takes over from the first are the
\* imports of its block.
C1_SecondRowColumnEmpty ==
    \A t \in CarryTables :
        LET first == RowStmts[RowsBefore(t) + 1]
            second == RowStmts[RowsBefore(t) + 2]
            R == result[t].combinators[1].urls
        IN  /\ RefColumn(second) = ""
            /\ RefColumn(first) # ""
            /\ second.kind = "block" =>
                 \A j \in 1..Len(R) :
                    ~filtered(R[j].module) =>
                        \E m \in 1..Len(second.imports) :
                            second.imports[m] = use_statement(R[j].module, R[j].name)

C1_Witness ==
    \E t \in CarryTables :
        /\ RowStmts[RowsBefore(t) + 2].kind = "block"
        /\ \E j \in 1..Len(result[t].combinators[1].urls) :
              ~filtered(result[t].combinators[1].urls[j].module)

\* the import statements proposed to the ledger: for every row, one for each
\* reference in force that is not filtered out
Proposals ==
    UNION {{<<InForce(k)[j].name,
              use_statement(InForce(k)[j].module, InForce(k)[j].name)>> :
                j \in {i \in 1..Len(InForce(k)) : ~filtered(InForce(k)[i].module)}} :
           k \in 1..Len(AllRows)}

ProposedFor(name) == {q[2] : q \in {pr \in Proposals : pr[1] = name}}

OneSided(combinator) == combinator.usage.some # combinator.input.some

\* C3: a row with exactly one of usage and input aborts the build at that
\* row: it is the last row the loop reaches, no statement is pushed for it
\* (neither a block nor a static row) and the generated file is not written.
C3_MalformedRowAborts ==
    \A k \in 1..Len(AllRows) :
        OneSided(AllRows[k]) =>
            /\ pc = "aborted"
            /\ k = Len(AllRows)
            /\ Len(RowStmts) = k - 1
            /\ ~generated.written

C3_Witness ==
    /\ pc = "aborted"
    /\ Len(AllRows) >= 2
    /\ AllRows[Len(AllRows)].usage.some
    /\ ~AllRows[Len(AllRows)].input.some

\* a module path that ends with streaming or begins with bits
Excluded(module) ==
    \/ Len(module) >= 9 /\ SubSeq(module, Len(module) - 8, Len(module)) = "streaming"
    \/ Len(module) >= 4 /\ SubSeq(module, 1, 4) = "bits"

\* the rows the loop has gone through without stopping
RowsDone == Len(RowStmts)

\* the statements of the references in force at the rows gone through, as
\* <<name, statement, excluded>>
References ==
    UNION {{<<InForce(k)[j].name,
              use_statement(InForce(k)[j].module, InForce(k)[j].name),
              Excluded(InForce(k)[j].module)>> : j \in 1..Len(InForce(k))} :
           k \in 1..RowsDone}

Admitted(name) == {q[2] : q \in {rf \in References : rf[1] = name /\ ~rf[3]}}

\* C11: after any sequence of rows, a reference whose module path ends with
\* streaming or begins with bits has never been recorded: the ledger holds,
\* for each name, a statement of a reference that is not excluded; a name is
\* a conflict exactly when two different statements of references that are
\* not excluded were proposed for it; the global import list holds no
\* statement of an excluded reference; and the link of an excluded reference
\* stands in the reference column of the row that names it.
C11_ExcludedNeverRecorded ==
    /\ \A n \in DOMAIN uses : uses[n] \in Admitted(n)
    /\ pc = "rows" =>
          /\ DOMAIN uses = {rf[1] : rf \in {q \in References : ~q[3]}}
          /\ uses_conflicts = {n \in DOMAIN uses : Cardinality(Admitted(n)) >= 2}
    /\ uses_conflicts \subseteq {rf[1] : rf \in {q \in References : ~q[3]}}
    /\ \A k \in 1..Len(generated.uses) :
          \A rf \in References : rf[3] /\ rf[2] \notin Admitted(rf[1])
                                      => generated.uses[k] # rf[2]
    /\ \A k \in 1..RowsDone :
          \A j \in 1..Len(AllRows[k].urls) :
             Excluded(AllRows[k].urls[j].module) =>
                Find(RefColumn(RowStmts[k]),
                     AllRows[k].urls[j].module \o "::[" \o AllRows[k].urls[j].name
                     \o "](" \o AllRows[k].urls[j].docsurl \o ")") > 0

\* an excluded reference and another reference share a name, and the build
\* is done
C11_Witness ==
    /\ pc = "done"
    /\ \E x \in References : \E y \in References :
          /\ x[3] /\ ~y[3] /\ x[1] = y[1]
          /\ \E k \in 1..Len(generated.uses) : generated.uses[k] = y[2]

\* the references of the nearest row up to the k-th with a reference cell
\* that is not empty, none when there is no such row
Nearest(k) ==
    LET own == {m \in 1..k : AllRows[m].urls # <<>>}
    IN  IF own = {} THEN <<>>
        ELSE AllRows[CHOOSE m \in own : \A o \in own : o <= m].urls

\* the statements of the references that are not excluded, in their order
ImportsOf(urls) ==
    LET kept == SelectSeq(urls, LAMBDA u : ~Excluded(u.module))
    IN  [j \in 1..Len(kept) |-> use_statement(kept[j].module, kept[j].name)]

\* C12: after any sequence of rows, the references a row works with are its
\* own when its cell is not empty, and else those of the nearest row before
\* it with a cell that is not empty, through rows with empty cells, rows
\* without usage and input, and from one table to the next: they make the
\* imports of the row's block after the imports of its usage cell, they are
\* what the ledger has recorded, and they are what the next row would carry.
C12_CarryForward ==
    /\ \A k \in 1..RowsDone :
          RowStmts[k].kind = "block" =>
             RowStmts[k].imports
                = import_items(AllRows[k].imports) \o ImportsOf(Nearest(k))
    /\ (pc = "rows" /\ RowsDone >= 1) =>
          /\ last_urls = Nearest(RowsDone)
          /\ DOMAIN uses =
                UNION {{Nearest(k)[j].name :
                          j \in {i \in 1..Len(Nearest(k)) :
                                   ~Excluded(Nearest(k)[i].module)}} :
                       k \in 1..RowsDone}

\* a row with references, then a row without references, usage and input,
\* then in the next table a row without references whose block imports the
\* first row's reference
C12_Witness ==
    /\ RowsDone = 3
    /\ Len(result) = 2
    /\ AllRows[1].urls # <<>>
    /\ AllRows[2].urls = <<>> /\ RowStmts[2].kind = "writeln"
    /\ AllRows[3].urls = <<>> /\ RowStmts[3].kind = "block"
    /\ ImportsOf(AllRows[1].urls) # <<>>
    /\ RowStmts[3].imports = ImportsOf(AllRows[1].urls)

\* C13: a first row of the first table with an empty reference cell, which
\* has no row before it to carry references from, aborts the build; the row
\* is not written with an empty reference list.
C13_FirstRowEmptyAborts ==
    (Len(AllRows) >= 1 /\ AllRows[1].urls = <<>>) => pc = "aborted"

-----------------------------------------------------------------------------
(* Claims about format_iresult (SpecRes).                                  *)

IsError == pc \in {"returned", "panicked"} /\ call.tag \in {"Error", "Failure"}

\* the location lies in the input, by its addresses
SubSpan(location, inp) ==
    /\ inp.ptr <= location.ptr
    /\ location.ptr + location.len <= inp.ptr + inp.len

ReportsOffset(i) ==
    /\ pc = "returned"
    /\ rendered = call.tag \o "<br>Byte offset: " \o decimal(i) \o "<br>Code: " \o call.code

\* C5, as stated: for an Error or Failure whose location is a sub-span of the
\* input by address, starting at byte i with 0 <= i <= length, the offset i
\* is reported, for text and byte inputs alike; for any other location no
\* offset is produced and the run aborts.
C5_OffsetOfEverySubspan ==
    IsError =>
        IF SubSpan(call.location, call.input)
        THEN ReportsOffset(call.location.ptr - call.input.ptr)
        ELSE pc = "panicked"

\* C5, amended: the same for byte inputs; for a text input the offset i is
\* reported when 0 <= i < length, and a location that starts at the end of
\* the input (i = length) gets no offset and aborts the run.
C5_OffsetOfSubspanBeforeEnd ==
    IsError =>
        IF /\ SubSpan(call.location, call.input)
           /\ call.kind = "str" => call.location.ptr < call.input.ptr + call.input.len
        THEN ReportsOffset(call.location.ptr - call.input.ptr)
        ELSE pc = "panicked"

C5_Witness ==
    /\ IsError
    /\ pc = "returned"
    /\ call.kind = "str"
    /\ call.input.len = 4
    /\ call.location.ptr - call.input.ptr = 2

\* the byte list as the remainder shows it: &[0x00, 0x01]
ByteList(bytes) ==
    "&[" \o join([k \in 1..Len(bytes) |-> debug_u8(bytes[k])], ", ") \o "]"

\* C7: a success renders the value as markdown_format_code of its debug text,
\* and No remainder exactly when the remainder is empty; a non-empty text
\* remainder r renders as markdown_format_code of the debug text of r, also
\* when r holds spaces, commas, brackets or back-quotes.
C7_SuccessRendering ==
    (pc = "returned" /\ call.tag = "Ok") =>
        rendered = "Result: " \o markdown_format_code(debug_str(call.value))
            \o (IF is_empty(call.kind, call.remainder) THEN "<br>No remainder"
                ELSE "<br>Remainder: "
                     \o markdown_format_code(
                            IF call.kind = "str" THEN debug_str(call.remainder.text)
                            ELSE ByteList(call.remainder.bytes)))

\* The same for the text remainders without a space, comma or bracket.
SuccessRenderingPlain ==
    (/\ pc = "returned"
     /\ call.tag = "Ok"
     /\ \A k \in 1..Len(call.remainder.text) :
           Ch(call.remainder.text, k) \notin {" ", ",", "[", "]"}) =>
        rendered = "Result: " \o markdown_format_code(debug_str(call.value))
            \o (IF is_empty(call.kind, call.remainder) THEN "<br>No remainder"
                ELSE "<br>Remainder: "
                     \o markdown_format_code(
                            IF call.kind = "str" THEN debug_str(call.remainder.text)
                            ELSE ByteList(call.remainder.bytes)))

-----------------------------------------------------------------------------
(* Claims about the two quoting functions together (SpecRound).            *)

\* C14: for every text s that is not empty, parse_code_span applied to
\* markdown_format_code(s) reads the whole quoted text and gives s back: the
\* space the formatter adds on each side is the pair the parser strips, and
\* no other space or back-quote at the ends of s is lost.
C14_RoundTrip ==
    (pc = "reparsed" /\ fmt_in # "") =>
        /\ span_out.ok
        /\ Len(span_out.rest) = 0
        /\ span_out.out = fmt_in

\* a text between two spaces with a back-quote in it, read back
C14_Witness ==
    /\ pc = "reparsed"
    /\ Len(fmt_in) >= 3
    /\ Ch(fmt_in, 1) = " " /\ Ch(fmt_in, Len(fmt_in)) = " "
    /\ \E k \in 1..Len(fmt_in) : Ch(fmt_in, k) = BQ
    /\ span_out.out = fmt_in

=============================================================================
